---- MODULE Spec2Model ----
(***************************************************************************)
(* Nursery Project Manager (src/app.py): the SQLite store nursery.db, the  *)
(* Google Drive folder used as blob store, and the Streamlit script runs   *)
(* (main: init_database, seed_sample_data, one page handler) of the        *)
(* browser sessions that share them.                                       *)
(*                                                                         *)
(* Every value stored in a column is a string; None / SQL NULL is NULL.    *)
(* sqlite3 runs in Python's default (legacy) transaction mode: a           *)
(* transaction is opened implicitly before INSERT/UPDATE/DELETE only, so   *)
(* ALTER/CREATE/DROP executed with no transaction open commit at once, and *)
(* rollback() undoes only what follows the first INSERT.  A statement that *)
(* writes waits while another connection holds an open transaction.        *)
(* The photos and comments tables are created by every init_database that  *)
(* returns, before any access to them; they are modelled as always there.  *)
(***************************************************************************)
EXTENDS Integers, Sequences, FiniteSets, TLC

\* ---------------------------------------------------------------- bounds
MaxRuns == 2        \* script runs (main) started over all sessions
MaxBlobs == 2       \* files the Drive folder hands out ids for
MaxPhotos == 2      \* rows ever inserted into photos
MaxComments == 4    \* rows ever inserted into comments
MaxDay == 2         \* calendar days the clock passes through

Sessions == {"s1", "s2"}
NULL == "NULL"

\* datetime.now().strftime('%Y-%m-%d') on day n of the model's calendar
Date(n) == "2025-10-" \o ToString(9 + n)
\* the id Drive returns for the n-th file created
DriveId(n) == "drive-" \o ToString(n)

\* Python's zero-based tuple index
Py(t, k) == t[k + 1]

RECURSIVE SetToSeq(_)
SetToSeq(S) == IF S = {} THEN <<>>
               ELSE LET x == CHOOSE y \in S : TRUE IN <<x>> \o SetToSeq(S \ {x})
Range(q) == {q[k] : k \in 1..Len(q)}

\* ---------------------------------------------------------------- layouts
\* columns of the current projects table, in CREATE TABLE order
NewLayout == <<"id", "name", "overall_status", "house", "plant_shape", "water_status",
               "pest_presence", "disease_presence", "quantity", "root_structure",
               "nutrient_status", "pest_type", "disease_type", "action_required",
               "priority", "retail_ready", "retail_timeline", "header_image_id",
               "last_updated">>
\* columns of the old projects table
OldLayout == <<"id", "name", "overall_status", "overall_health", "root_growth",
               "pest_presence", "disease_presence", "water_level", "soil_quality",
               "greenhouse_location", "next_steps", "retail_availability",
               "last_updated">>

\* a row of an old table that has the first w columns of the old layout
OldRow(id, w) == SubSeq(<<id, "Plant A", "Healthy", "80", "Good", "Little", "None",
                          "Adequate", "Rich", "GH-1", "Water more", "Available",
                          "2025-01-01">>, 1, w)
OldIds == {"p1", "p2"}
OldWidths == 2..Len(OldLayout)

\* mutant: the schema check is lost
AlwaysMigrate(columns) == TRUE

\* 'house' not in columns
NeedsMigration(columns) == \A k \in 1..Len(columns) : columns[k] # "house"

\* mutant: water_level and soil_quality taken from each other's index
NewProjSwapped(old_proj, now) ==
    << Py(old_proj, 0),
       Py(old_proj, 1),
       Py(old_proj, 2),
       IF Len(old_proj) > 9 THEN Py(old_proj, 9) ELSE "TBD",
       "TBD",
       IF Len(old_proj) > 8 THEN Py(old_proj, 8) ELSE "TBD",
       IF Len(old_proj) > 5 THEN Py(old_proj, 5) ELSE "None",
       IF Len(old_proj) > 6 THEN Py(old_proj, 6) ELSE "None",
       "TBD",
       IF Len(old_proj) > 4 THEN Py(old_proj, 4) ELSE "TBD",
       IF Len(old_proj) > 7 THEN Py(old_proj, 7) ELSE "TBD",
       "",
       "",
       IF Len(old_proj) > 10 THEN Py(old_proj, 10) ELSE "TBD",
       "Medium",
       IF Len(old_proj) > 11 THEN Py(old_proj, 11) ELSE "Not yet available",
       "TBD",
       NULL,
       IF Len(old_proj) > 12 THEN Py(old_proj, 12) ELSE now >>

\* the tuple new_proj built from old_proj
NewProj(old_proj, now) ==
    << Py(old_proj, 0),
       Py(old_proj, 1),
       Py(old_proj, 2),
       IF Len(old_proj) > 9 THEN Py(old_proj, 9) ELSE "TBD",
       "TBD",
       IF Len(old_proj) > 7 THEN Py(old_proj, 7) ELSE "TBD",
       IF Len(old_proj) > 5 THEN Py(old_proj, 5) ELSE "None",
       IF Len(old_proj) > 6 THEN Py(old_proj, 6) ELSE "None",
       "TBD",
       IF Len(old_proj) > 4 THEN Py(old_proj, 4) ELSE "TBD",
       IF Len(old_proj) > 8 THEN Py(old_proj, 8) ELSE "TBD",
       "",
       "",
       IF Len(old_proj) > 10 THEN Py(old_proj, 10) ELSE "TBD",
       "Medium",
       IF Len(old_proj) > 11 THEN Py(old_proj, 11) ELSE "Not yet available",
       "TBD",
       NULL,
       IF Len(old_proj) > 12 THEN Py(old_proj, 12) ELSE now >>

\* ---------------------------------------------------------------- state
VARIABLES
    projects_cols,  \* columns of table projects; <<>> when there is no such table
    projects,       \* committed rows of table projects
    old_exists,     \* table projects_old exists
    projects_old,   \* committed rows of table projects_old
    photos,         \* rows of table photos
    comments,       \* rows of table comments
    photo_seq,      \* AUTOINCREMENT counter of photos
    comment_seq,    \* AUTOINCREMENT counter of comments
    blobs,          \* ids of the files now in the Drive folder
    blob_seq,       \* number of files Drive has created
    today,          \* the calendar day
    runs,           \* script runs started
    pc,             \* per session: where its script run stands
    loc,            \* per session: the local variables of its run
    msg             \* per session: what the run showed (st.error, st.success, traceback)

vars == <<projects_cols, projects, old_exists, projects_old, photos, comments,
          photo_seq, comment_seq, blobs, blob_seq, today, runs, pc, loc, msg>>

dbProjects == <<projects_cols, projects, old_exists, projects_old>>
dbRest == <<photos, comments, photo_seq, comment_seq>>
drive == <<blobs, blob_seq>>

NoLocals == [old_projects |-> <<>>, i |-> 0, in_txn |-> FALSE, txn_rows |-> {},
             txn_drop |-> FALSE, id |-> NULL, name |-> NULL,
             header_image_id |-> NULL, google_drive_id |-> NULL, photo_id |-> 0]

Init ==
    /\ \/ /\ projects_cols = <<>>
          /\ projects = {}
       \/ \E w \in OldWidths, ids \in SUBSET OldIds :
             /\ projects_cols = SubSeq(OldLayout, 1, w)
             /\ projects = {OldRow(id, w) : id \in ids}
    /\ old_exists = FALSE
    /\ projects_old = {}
    /\ photos = {}
    /\ comments = {}
    /\ photo_seq = 0
    /\ comment_seq = 0
    /\ blobs = {}
    /\ blob_seq = 0
    /\ today = 1
    /\ runs = 0
    /\ pc = [s \in Sessions |-> "idle"]
    /\ loc = [s \in Sessions |-> NoLocals]
    /\ msg = [s \in Sessions |-> ""]

\* no other connection holds an open transaction (the write lock is free)
CanWrite(s) == \A t \in Sessions \ {s} : ~loc[t].in_txn

Goto(s, label) == pc' = [pc EXCEPT ![s] = label]
Show(s, text) == msg' = [msg EXCEPT ![s] = text]
\* the run ends: its locals are gone, an open transaction is rolled back.
\* A success message is followed by st.rerun(), which re-renders the page
\* without it, so only errors and warnings stay on the screen.
EndRun(s, text) ==
    /\ pc' = [pc EXCEPT ![s] = "idle"]
    /\ loc' = [loc EXCEPT ![s] = NoLocals]
    /\ msg' = [msg EXCEPT ![s] = text]

\* ---------------------------------------------------------------- startup
\* main -> init_database up to the migration decision, and the CREATE TABLE
\* IF NOT EXISTS statements with the commit when no migration is needed
InitDatabase(s) ==
    /\ pc[s] = "idle"
    /\ runs < MaxRuns
    /\ runs' = runs + 1
    /\ IF projects_cols # <<>>
       THEN /\ IF NeedsMigration(projects_cols)
               THEN Goto(s, "mig_select")
               ELSE Goto(s, "seed")
            /\ UNCHANGED dbProjects
       ELSE /\ CanWrite(s)
            /\ projects_cols' = NewLayout
            /\ projects' = {}
            /\ UNCHANGED <<old_exists, projects_old>>
            /\ Goto(s, "seed")
    /\ loc' = [loc EXCEPT ![s] = NoLocals]
    /\ Show(s, "")
    /\ UNCHANGED <<dbRest, drive, today>>

\* except Exception: conn.rollback(); raise -- the error leaves
\* migrate_database, init_database and main
Abort(s) ==
    /\ EndRun(s, "MigrationError")
    /\ UNCHANGED <<dbProjects, dbRest, drive, today, runs>>

MigPcs == {"mig_select", "mig_rename", "mig_create", "mig_insert", "mig_drop", "mig_commit"}

\* a statement of migrate_database fails for a reason outside the data
\* (I/O error, disk full, lock timeout)
MigFail(s) ==
    /\ pc[s] \in MigPcs
    /\ Abort(s)

\* SELECT * FROM projects; fetchall
MigSelect(s) ==
    /\ pc[s] = "mig_select"
    /\ IF projects_cols = <<>>
       THEN Abort(s)
       ELSE /\ loc' = [loc EXCEPT ![s].old_projects = SetToSeq(projects)]
            /\ Goto(s, "mig_rename")
            /\ UNCHANGED <<msg, dbProjects, dbRest, drive, today, runs>>

\* ALTER TABLE projects RENAME TO projects_old
MigRename(s) ==
    /\ pc[s] = "mig_rename"
    /\ CanWrite(s)
    /\ IF projects_cols = <<>> \/ old_exists
       THEN Abort(s)
       ELSE /\ old_exists' = TRUE
            /\ projects_old' = projects
            /\ projects_cols' = <<>>
            /\ projects' = {}
            /\ Goto(s, "mig_create")
            /\ UNCHANGED <<loc, msg, dbRest, drive, today, runs>>

\* mutant: the loop is left after its first turn
AfterFirstInsert(i, n) == "mig_drop"

\* the label after the statement that inserted row i of n
AfterInsert(i, n) == IF i < n THEN "mig_insert" ELSE "mig_drop"

\* CREATE TABLE projects (...)
MigCreate(s) ==
    /\ pc[s] = "mig_create"
    /\ CanWrite(s)
    /\ IF projects_cols # <<>>
       THEN Abort(s)
       ELSE /\ projects_cols' = NewLayout
            /\ projects' = {}
            /\ loc' = [loc EXCEPT ![s].i = 1]
            /\ Goto(s, AfterInsert(0, Len(loc[s].old_projects)))
            /\ UNCHANGED <<old_exists, projects_old, msg, dbRest, drive, today, runs>>

\* mutant: the table has no PRIMARY KEY and no NOT NULL constraint
AlwaysInsertable(row, rows) == TRUE

\* the row violates no constraint of the new table
Insertable(row, rows) ==
    /\ row[2] # NULL
    /\ \A r \in rows : r[1] # row[1]

\* one turn of the loop: build new_proj, INSERT INTO projects VALUES (...)
MigInsert(s) ==
    /\ pc[s] = "mig_insert"
    /\ CanWrite(s)
    /\ LET old_proj == loc[s].old_projects[loc[s].i]
       IN  IF \/ Len(old_proj) < 3
              \/ projects_cols # NewLayout
              \/ ~Insertable(NewProj(old_proj, Date(today)), projects \cup loc[s].txn_rows)
           THEN Abort(s)
           ELSE /\ loc' = [loc EXCEPT ![s].in_txn = TRUE,
                                      ![s].txn_rows = @ \cup {NewProj(old_proj, Date(today))},
                                      ![s].i = @ + 1]
                /\ Goto(s, AfterInsert(loc[s].i, Len(loc[s].old_projects)))
                /\ UNCHANGED <<msg, dbProjects, dbRest, drive, today, runs>>

\* DROP TABLE projects_old
MigDrop(s) ==
    /\ pc[s] = "mig_drop"
    /\ CanWrite(s)
    /\ IF ~old_exists
       THEN Abort(s)
       ELSE /\ IF loc[s].in_txn
               THEN /\ loc' = [loc EXCEPT ![s].txn_drop = TRUE]
                    /\ UNCHANGED <<old_exists, projects_old>>
               ELSE /\ old_exists' = FALSE
                    /\ projects_old' = {}
                    /\ UNCHANGED loc
            /\ Goto(s, "mig_commit")
            /\ UNCHANGED <<projects_cols, projects, msg, dbRest, drive, today, runs>>

\* conn.commit(), then the rest of init_database
MigCommit(s) ==
    /\ pc[s] = "mig_commit"
    /\ projects' = projects \cup loc[s].txn_rows
    /\ IF loc[s].txn_drop
       THEN old_exists' = FALSE /\ projects_old' = {}
       ELSE UNCHANGED <<old_exists, projects_old>>
    /\ loc' = [loc EXCEPT ![s] = NoLocals]
    /\ Goto(s, "seed")
    /\ UNCHANGED <<projects_cols, msg, dbRest, drive, today, runs>>

\* an uncaught exception (sqlite3 error, lost connection) ends a run outside
\* migrate_database; nothing it had not committed is kept
Crash(s) ==
    /\ pc[s] \notin MigPcs \cup {"idle"}
    /\ EndRun(s, "Exception")
    /\ UNCHANGED <<dbProjects, dbRest, drive, today, runs>>

\* ---------------------------------------------------------------- queries
\* Python truthiness of a str or None
Truthy(v) == v # NULL /\ v # ""

\* get_all_projects(), as a set
GetAllProjects == projects

\* get_project_by_id: fetchone(), <<>> standing for None
GetProjectById(project_id) ==
    IF \E r \in projects : r[1] = project_id
    THEN CHOOSE r \in projects : r[1] = project_id
    ELSE <<>>

\* get_project_photos(project_id), as a set
GetProjectPhotos(project_id) == {ph \in photos : ph[2] = project_id}

\* the day a date_added value was formatted from
DayOf(date) == CHOOSE n \in 1..MaxDay : Date(n) = date

\* ORDER BY date_added DESC puts row a before row b; rows of equal date_added
\* leave SQLite's sorter in the order of the table scan, which is by rowid
Before(a, b) == DayOf(a[6]) > DayOf(b[6]) \/ (a[6] = b[6] /\ a[1] < b[1])

\* get_project_photos(project_id) on the given rows: the list fetchall returns
ListProjectPhotos(rows, project_id) ==
    LET S == {ph \in rows : ph[2] = project_id}
    IN  CHOOSE q \in [1..Cardinality(S) -> S] :
            \A i, j \in 1..Cardinality(S) : i < j => Before(q[i], q[j])

\* ---------------------------------------------------------------- writes
\* UPDATE projects SET overall_status = ?, ..., last_updated = ? WHERE id = ?
UpdateProjectStatus(rows, project_id, status_data) ==
    {IF r[1] = project_id
     THEN <<r[1], r[2]>> \o SubSeq(status_data, 1, 15) \o <<r[18], status_data[16]>>
     ELSE r : r \in rows}

\* UPDATE projects SET header_image_id = ? WHERE id = ?
UpdateProjectHeaderImage(rows, project_id, image_id) ==
    {IF r[1] = project_id THEN [r EXCEPT ![18] = image_id] ELSE r : r \in rows}

\* INSERT INTO photos (...) VALUES (...), the id from AUTOINCREMENT
AddPhoto(rows, seq, project_id, google_drive_id, caption, user_name, now) ==
    rows \cup {<<seq + 1, project_id, google_drive_id, caption, user_name, now>>}

\* DELETE FROM photos WHERE id = ?
DeletePhoto(rows, photo_id) == {ph \in rows : ph[1] # photo_id}

\* INSERT INTO comments (...) VALUES (...), the id from AUTOINCREMENT
AddComment(rows, seq, project_id, user_name, comment_text, now) ==
    rows \cup {<<seq + 1, project_id, user_name, comment_text, now>>}

\* datetime.now().strftime('%Y-%m-%d %H:%M'); the time of day is not modelled
DateTime(n) == Date(n) \o " 09:00"

\* ---------------------------------------------------------------- blob store
\* upload_photo_to_drive: the id of the file created, or None on any error
Upload(key) ==
    \/ /\ key = NULL
       /\ UNCHANGED drive
    \/ /\ blob_seq < MaxBlobs
       /\ key = DriveId(blob_seq + 1)
       /\ blob_seq' = blob_seq + 1
       /\ blobs' = blobs \cup {key}
UploadResults == {NULL} \cup {DriveId(n) : n \in 1..MaxBlobs}

\* delete_photo_from_drive: True when the file was deleted, False on any error
DeleteFromDrive(file_id, ok) ==
    IF ok
    THEN /\ file_id \in blobs
         /\ blobs' = blobs \ {file_id}
         /\ UNCHANGED blob_seq
    ELSE UNCHANGED drive

\* ---------------------------------------------------------------- seeding
SampleProjects ==
    << <<"hydrangea-little-lime-2025", "Hydrangea Little Lime 2025", "Healthy",
         "House 3", "Rounded", "Adequate", "None", "None",
         "45 units", "Excellent", "Good", "", "",
         "Monitor for aphids", "Medium", "Available", "Ready now",
         NULL, "2025-10-05">>,
       <<"knockout-roses-spring-2025", "Knockout Roses Spring 2025", "Needs Attention",
         "House 1", "Bushy", "Slightly dry", "Little", "None",
         "30 units", "Moderate", "Fair", "Aphids", "",
         "Apply aphid treatment, increase watering", "High", "Not yet available", "2-3 weeks",
         NULL, "2025-10-06">> >>

SampleComments ==
    << <<"hydrangea-little-lime-2025", "Sarah M.", "Plants looking great! Color is coming in nicely.">>,
       <<"hydrangea-little-lime-2025", "Mike T.", "Adjusted watering schedule. Monitoring closely.">>,
       <<"knockout-roses-spring-2025", "Mike T.", "Spotted some aphids on lower leaves. Planning treatment for tomorrow.">> >>

\* seed_sample_data: projects = get_all_projects(); if len(projects) == 0
SeedCheck(s) ==
    /\ pc[s] = "seed"
    /\ projects_cols # <<>>
    /\ IF Cardinality(GetAllProjects) = 0
       THEN /\ loc' = [loc EXCEPT ![s].i = 1]
            /\ Goto(s, "seed_project")
       ELSE /\ UNCHANGED loc
            /\ Goto(s, "page")
    /\ UNCHANGED <<msg, dbProjects, dbRest, drive, today, runs>>

\* for project in sample_projects: add_project(project)
SeedProject(s) ==
    /\ pc[s] = "seed_project"
    /\ CanWrite(s)
    /\ projects_cols = NewLayout
    /\ Insertable(SampleProjects[loc[s].i], projects)
    /\ projects' = projects \cup {SampleProjects[loc[s].i]}
    /\ IF loc[s].i < Len(SampleProjects)
       THEN /\ loc' = [loc EXCEPT ![s].i = @ + 1]
            /\ UNCHANGED pc
       ELSE /\ loc' = [loc EXCEPT ![s].i = 1]
            /\ Goto(s, "seed_comment")
    /\ UNCHANGED <<projects_cols, old_exists, projects_old, msg, dbRest, drive, today, runs>>

\* the three add_comment calls of seed_sample_data
SeedComment(s) ==
    /\ pc[s] = "seed_comment"
    /\ CanWrite(s)
    /\ comment_seq < MaxComments
    /\ LET c == SampleComments[loc[s].i]
       IN  comments' = AddComment(comments, comment_seq, c[1], c[2], c[3], DateTime(today))
    /\ comment_seq' = comment_seq + 1
    /\ IF loc[s].i < Len(SampleComments)
       THEN /\ loc' = [loc EXCEPT ![s].i = @ + 1]
            /\ UNCHANGED pc
       ELSE /\ loc' = [loc EXCEPT ![s].i = 0]
            /\ Goto(s, "page")
    /\ UNCHANGED <<dbProjects, photos, photo_seq, msg, drive, today, runs>>

\* ---------------------------------------------------------------- home page
\* what the form fields hold when "Create Project" is pressed
NameInputs == {"", "Roses 2025"}
IdInputs == {"", "p1", "roses-2025"}

\* mutant: the priority default is lost
NewProjectDataNoPriority(new_project_id, new_project_name, now) ==
    << new_project_id,
       new_project_name,
       "Healthy",
       "TBD", "TBD", "TBD", "None", "None",
       "TBD", "TBD", "TBD", "", "",
       "Initial planting and monitoring",
       "TBD",
       "Not yet available",
       "TBD",
       NULL,
       now >>

\* the tuple new_project_data
NewProjectData(new_project_id, new_project_name, now) ==
    << new_project_id,
       new_project_name,
       "Healthy",
       "TBD", "TBD", "TBD", "None", "None",
       "TBD", "TBD", "TBD", "", "",
       "Initial planting and monitoring",
       "Medium",
       "Not yet available",
       "TBD",
       NULL,
       now >>

\* if new_project_name and new_project_id
FormFilled(new_project_name, new_project_id) ==
    Truthy(new_project_name) /\ Truthy(new_project_id)

\* mutant: the lookup's result is ignored
NeverExisting(existing) == FALSE

\* if existing
Existing(existing) == existing # <<>>

\* "Create Project" pressed: the validation and the lookup
CreateCheck(s, new_project_name, new_project_id) ==
    /\ pc[s] = "page"
    /\ projects_cols # <<>>
    /\ IF FormFilled(new_project_name, new_project_id)
       THEN IF Existing(GetProjectById(new_project_id))
            THEN EndRun(s, "Project ID already exists! Choose a different ID.")
            ELSE /\ loc' = [loc EXCEPT ![s].id = new_project_id,
                                       ![s].name = new_project_name]
                 /\ Goto(s, "create_insert")
                 /\ UNCHANGED msg
       ELSE EndRun(s, "Please fill in both Project Name and Project ID")
    /\ UNCHANGED <<dbProjects, dbRest, drive, today, runs>>

\* add_project(new_project_data); an IntegrityError of the INSERT is not caught
CreateInsert(s) ==
    /\ pc[s] = "create_insert"
    /\ CanWrite(s)
    /\ projects_cols = NewLayout
    /\ IF Insertable(NewProjectData(loc[s].id, loc[s].name, Date(today)), projects)
       THEN /\ projects' = projects \cup {NewProjectData(loc[s].id, loc[s].name, Date(today))}
            /\ EndRun(s, "")
       ELSE /\ UNCHANGED projects
            /\ EndRun(s, "IntegrityError")
    /\ UNCHANGED <<projects_cols, old_exists, projects_old, dbRest, drive, today, runs>>

\* ---------------------------------------------------------------- project page
\* the ids show_project_page can be rendered for
Shown == IF projects_cols = NewLayout THEN {r[1] : r \in projects} ELSE {}

\* what the edit form holds when "Save Changes" is pressed (without the date)
StatusInputs ==
    { <<"Critical", "House 2", "Tall", "Dry", "High", "Little", "10 units", "Weak",
        "Poor", "Mites", "Mildew", "Treat now", "Urgent", "Sold out", "Next year">> }

\* show_project_page found the project (get_project_by_id) and rendered it
\* in edit mode; "Save Changes" is pressed
SaveStatus(s, proj_id) ==
    /\ pc[s] = "page"
    /\ proj_id \in Shown
    /\ loc' = [loc EXCEPT ![s].id = proj_id]
    /\ Goto(s, "status_update")
    /\ UNCHANGED <<msg, dbProjects, dbRest, drive, today, runs>>

\* update_project_status(proj_id, status_data): the UPDATE and the commit.
\* An UPDATE that matches no row is no error; one on a missing table or
\* column raises sqlite3.OperationalError, which nothing catches
StatusUpdate(s, fields) ==
    /\ pc[s] = "status_update"
    /\ CanWrite(s)
    /\ IF projects_cols = NewLayout
       THEN /\ projects' = UpdateProjectStatus(projects, loc[s].id, fields \o <<Date(today)>>)
            /\ EndRun(s, "")
       ELSE /\ UNCHANGED projects
            /\ EndRun(s, "OperationalError")
    /\ UNCHANGED <<projects_cols, old_exists, projects_old, dbRest, drive, today, runs>>

\* "Set as Header Image": the upload
HeaderUpload(s, proj_id, header_file) ==
    /\ pc[s] = "page"
    /\ proj_id \in Shown
    /\ IF header_file
       THEN \E key \in UploadResults :
              /\ Upload(key)
              /\ IF Truthy(key)
                 THEN /\ loc' = [loc EXCEPT ![s].id = proj_id,
                                            ![s].header_image_id = GetProjectById(proj_id)[18],
                                            ![s].google_drive_id = key]
                      /\ Goto(s, IF Truthy(GetProjectById(proj_id)[18])
                                 THEN "hdr_delete" ELSE "hdr_update")
                      /\ UNCHANGED msg
                 ELSE EndRun(s, "Error uploading to Google Drive")
       ELSE /\ EndRun(s, "")
            /\ UNCHANGED drive
    /\ UNCHANGED <<dbProjects, dbRest, today, runs>>

\* delete_photo_from_drive(header_image_id), its result ignored
HeaderDelete(s, ok) ==
    /\ pc[s] = "hdr_delete"
    /\ DeleteFromDrive(loc[s].header_image_id, ok)
    /\ Goto(s, "hdr_update")
    /\ UNCHANGED <<loc, msg, dbProjects, dbRest, today, runs>>

\* update_project_header_image(proj_id, google_drive_id)
HeaderUpdate(s) ==
    /\ pc[s] = "hdr_update"
    /\ CanWrite(s)
    /\ projects_cols = NewLayout
    /\ projects' = UpdateProjectHeaderImage(projects, loc[s].id, loc[s].google_drive_id)
    /\ EndRun(s, "")
    /\ UNCHANGED <<projects_cols, old_exists, projects_old, dbRest, drive, today, runs>>

UserInputs == {"", "Ann"}
CaptionInputs == {""}

\* if uploaded_file and user_name
PhotoFormFilled(uploaded_file, user_name) == uploaded_file /\ Truthy(user_name)

\* mutant: the record is written whatever the upload returned
AlwaysUploaded(google_drive_id) == TRUE

\* if google_drive_id (the upload returned an id)
Uploaded(google_drive_id) == Truthy(google_drive_id)

\* photo_caption or "No caption"
Caption(photo_caption) == IF Truthy(photo_caption) THEN photo_caption ELSE "No caption"

\* "Upload Photo": the validation and the upload
PhotoUpload(s, proj_id, uploaded_file, user_name, photo_caption) ==
    /\ pc[s] = "page"
    /\ proj_id \in Shown
    /\ IF PhotoFormFilled(uploaded_file, user_name)
       THEN \E key \in UploadResults :
              /\ Upload(key)
              /\ IF Uploaded(key)
                 THEN /\ loc' = [loc EXCEPT ![s].id = proj_id,
                                            ![s].name = user_name,
                                            ![s].google_drive_id = key]
                      /\ Goto(s, "photo_add")
                      /\ UNCHANGED msg
                 ELSE EndRun(s, "Failed to upload photo to Google Drive")
       ELSE /\ EndRun(s, "Please provide your name and select a photo")
            /\ UNCHANGED drive
    /\ UNCHANGED <<dbProjects, dbRest, today, runs>>

\* add_photo(proj_id, google_drive_id, photo_caption or "No caption", user_name)
PhotoAdd(s, photo_caption) ==
    /\ pc[s] = "photo_add"
    /\ CanWrite(s)
    /\ photo_seq < MaxPhotos
    /\ photos' = AddPhoto(photos, photo_seq, loc[s].id, loc[s].google_drive_id,
                          Caption(photo_caption), loc[s].name, Date(today))
    /\ photo_seq' = photo_seq + 1
    /\ EndRun(s, "")
    /\ UNCHANGED <<dbProjects, comments, comment_seq, drive, today, runs>>

\* mutant: the record is deleted whatever the blob deletion returned
AlwaysBlobDeleted(ok) == TRUE

\* if delete_photo_from_drive(google_drive_id)
BlobDeleted(ok) == ok

\* "Delete" pressed under a listed photo: the blob deletion
PhotoDeleteBlob(s, photo, ok) ==
    /\ pc[s] = "page"
    /\ photo[2] \in Shown
    /\ photo \in GetProjectPhotos(photo[2])
    /\ DeleteFromDrive(photo[3], ok)
    /\ IF BlobDeleted(ok)
       THEN /\ loc' = [loc EXCEPT ![s].photo_id = photo[1]]
            /\ Goto(s, "photo_delete")
            /\ UNCHANGED msg
       ELSE EndRun(s, "Failed to delete photo")
    /\ UNCHANGED <<dbProjects, dbRest, today, runs>>

\* delete_photo(photo_id)
PhotoDeleteRecord(s) ==
    /\ pc[s] = "photo_delete"
    /\ CanWrite(s)
    /\ photos' = DeletePhoto(photos, loc[s].photo_id)
    /\ EndRun(s, "")
    /\ UNCHANGED <<dbProjects, comments, photo_seq, comment_seq, drive, today, runs>>

TextInputs == {"", "Looks fine"}

\* mutant: the comment text is not looked at
CommentFormFilledUserOnly(comment_user, comment_text) == Truthy(comment_user)

\* if comment_user and comment_text
CommentFormFilled(comment_user, comment_text) == Truthy(comment_user) /\ Truthy(comment_text)

\* "Post Comment"
PostComment(s, proj_id, comment_user, comment_text) ==
    /\ pc[s] = "page"
    /\ proj_id \in Shown
    /\ IF CommentFormFilled(comment_user, comment_text)
       THEN /\ CanWrite(s)
            /\ comment_seq < MaxComments
            /\ comments' = AddComment(comments, comment_seq, proj_id, comment_user,
                                      comment_text, DateTime(today))
            /\ comment_seq' = comment_seq + 1
            /\ EndRun(s, "")
       ELSE /\ UNCHANGED <<comments, comment_seq>>
            /\ EndRun(s, "Please provide your name and comment text")
    /\ UNCHANGED <<dbProjects, photos, photo_seq, drive, today, runs>>

\* midnight
DayPasses ==
    /\ today < MaxDay
    /\ today' = today + 1
    /\ UNCHANGED <<dbProjects, dbRest, drive, runs, pc, loc, msg>>

\* the script renders the page and no button was pressed
Render(s) ==
    /\ pc[s] = "page"
    /\ EndRun(s, "")
    /\ UNCHANGED <<dbProjects, dbRest, drive, today, runs>>

\* ---------------------------------------------------------------- specifications
\* main up to the page, without migrate_database
Boot(s) ==
    \/ InitDatabase(s)
    \/ SeedCheck(s)
    \/ SeedProject(s)
    \/ SeedComment(s)
    \/ Render(s)
    \/ Crash(s)

Migrate(s) ==
    \/ MigSelect(s)
    \/ MigRename(s)
    \/ MigCreate(s)
    \/ MigInsert(s)
    \/ MigDrop(s)
    \/ MigCommit(s)
    \/ MigFail(s)

Startup(s) == Boot(s) \/ Migrate(s)

Create(s) ==
    \/ \E n \in NameInputs, id \in IdInputs : CreateCheck(s, n, id)
    \/ CreateInsert(s)

Header(s) ==
    \/ \E p \in Shown, f \in BOOLEAN : HeaderUpload(s, p, f)
    \/ \E ok \in BOOLEAN : HeaderDelete(s, ok)
    \/ HeaderUpdate(s)

Photo(s) ==
    \/ \E p \in Shown, f \in BOOLEAN, u \in UserInputs, c \in CaptionInputs :
          PhotoUpload(s, p, f, u, c)
    \/ \E c \in CaptionInputs : PhotoAdd(s, c)
    \/ \E ph \in photos, ok \in BOOLEAN : PhotoDeleteBlob(s, ph, ok)
    \/ PhotoDeleteRecord(s)

Status(s) ==
    \/ \E p \in Shown : SaveStatus(s, p)
    \/ \E f \in StatusInputs : StatusUpdate(s, f)

Comment(s) == \E p \in Shown, u \in UserInputs, t \in TextInputs : PostComment(s, p, u, t)

\* the whole program
Next ==
    \/ DayPasses
    \/ \E s \in Sessions :
          Startup(s) \/ Create(s) \/ Header(s) \/ Photo(s) \/ Status(s) \/ Comment(s)

Spec == Init /\ [][Next]_vars

\* startups only, on every database the program can find
NextStartup == DayPasses \/ \E s \in Sessions : Startup(s)
SpecStartup == Init /\ [][NextStartup]_vars

\* a database the program created itself
InitFresh == Init /\ projects_cols = <<>>

\* the pages of a database the program created itself
NextPages ==
    \/ DayPasses
    \/ \E s \in Sessions :
          Boot(s) \/ Create(s) \/ Header(s) \/ Photo(s) \/ Status(s) \/ Comment(s)
SpecPages == InitFresh /\ [][NextPages]_vars

\* startups and status saves, on every database the program can find
NextStatus == DayPasses \/ \E s \in Sessions : Startup(s) \/ Status(s)
SpecStatus == Init /\ [][NextStatus]_vars

\* ---------------------------------------------------------------- properties
Ids(rows) == {r[1] : r \in rows}
HasColumn(layout, name) == \E k \in 1..Len(layout) : layout[k] = name
\* the value a row holds in the named column of its layout
Col(row, layout, name) == row[CHOOSE k \in 1..Len(layout) : layout[k] = name]
\* the value of an old row's column, or the default when the old table lacks it
From(old, name, default) ==
    IF HasColumn(SubSeq(OldLayout, 1, Len(old)), name) THEN Col(old, OldLayout, name)
    ELSE default
IsOldRow(row) == Len(row) >= 3 /\ Len(row) <= Len(OldLayout)

\* session s leaves migrate_database through its except clause in this step
MigrationFails(s) == pc[s] \in MigPcs /\ pc'[s] = "idle" /\ msg'[s] = "MigrationError"

\* C1: when a statement of migrate_database fails after the old table was
\* renamed, the migration is rolled back: as the error leaves, there is no
\* projects_old and the projects table is the old one with every row the run
\* found in it.
C1_FailureRollsBack ==
    [][\A s \in Sessions :
          (MigrationFails(s) /\ pc[s] \notin {"mig_select", "mig_rename"})
          => /\ ~old_exists'
             /\ projects_cols' # <<>>
             /\ NeedsMigration(projects_cols')
             /\ projects' = Range(loc[s].old_projects)]_vars

\* rows of the quarantined old table that are not in the projects table
Unmigrated == {r \in projects_old : old_exists /\ r[1] \notin Ids(projects)}

\* C2: a failed migration ends the run before it seeds or serves, and after a
\* failed migration no startup passes init_database to seed or serve while rows
\* of the old table are still un-migrated.
C2_FailureIsFatal ==
    [][\A s \in Sessions :
          /\ MigrationFails(s) => pc'[s] = "idle"
          /\ (/\ \E t \in Sessions : msg[t] = "MigrationError"
              /\ pc[s] = "idle"
              /\ pc'[s] = "seed")
             => Unmigrated' = {}]_vars

\* the new row the mapping table of the migration prescribes for an old row
MappedRow(old, now) ==
    [k \in 1..Len(NewLayout) |->
        CASE NewLayout[k] = "id" -> Col(old, OldLayout, "id")
          [] NewLayout[k] = "name" -> Col(old, OldLayout, "name")
          [] NewLayout[k] = "overall_status" -> Col(old, OldLayout, "overall_status")
          [] NewLayout[k] = "house" -> From(old, "greenhouse_location", "TBD")
          [] NewLayout[k] = "plant_shape" -> "TBD"
          [] NewLayout[k] = "water_status" -> From(old, "water_level", "TBD")
          [] NewLayout[k] = "pest_presence" -> From(old, "pest_presence", "None")
          [] NewLayout[k] = "disease_presence" -> From(old, "disease_presence", "None")
          [] NewLayout[k] = "quantity" -> "TBD"
          [] NewLayout[k] = "root_structure" -> From(old, "root_growth", "TBD")
          [] NewLayout[k] = "nutrient_status" -> From(old, "soil_quality", "TBD")
          [] NewLayout[k] = "pest_type" -> ""
          [] NewLayout[k] = "disease_type" -> ""
          [] NewLayout[k] = "action_required" -> From(old, "next_steps", "TBD")
          [] NewLayout[k] = "priority" -> "Medium"
          [] NewLayout[k] = "retail_ready" -> From(old, "retail_availability", "Not yet available")
          [] NewLayout[k] = "retail_timeline" -> "TBD"
          [] NewLayout[k] = "header_image_id" -> NULL
          [] NewLayout[k] = "last_updated" -> From(old, "last_updated", now)]

\* C3: every INSERT of the migration adds exactly the row the mapping table
\* prescribes for the old row, with the current date where last_updated is
\* missing, and when the migration commits every old-layout row it read has
\* exactly one row of its id in projects, which is that mapped row.
C3_MigrationMapsRows ==
    [][\A s \in Sessions :
          /\ (pc[s] = "mig_insert" /\ loc'[s].i = loc[s].i + 1
              /\ IsOldRow(loc[s].old_projects[loc[s].i]))
             => loc'[s].txn_rows =
                  loc[s].txn_rows \cup {MappedRow(loc[s].old_projects[loc[s].i], Date(today))}
          /\ (pc[s] = "mig_commit" /\ pc'[s] = "seed")
             => \A old \in Range(loc[s].old_projects) :
                  IsOldRow(old)
                  => /\ Cardinality({r \in projects' : r[1] = old[1]}) = 1
                     /\ \E d \in 1..today :
                          MappedRow(old, Date(d)) \in projects']_vars

\* a migration of a table without greenhouse_location has committed
C3_Witness ==
    /\ \E s \in Sessions : pc[s] = "seed"
    /\ \E r \in projects :
          /\ r[1] = "p1" /\ r[2] = "Plant A" /\ r[3] = "Healthy"
          /\ r[4] = "TBD" /\ r[6] = "Adequate" /\ r[10] = "Good" /\ r[11] = "Rich"
          /\ r[7] = "Little" /\ r[19] = Date(2)
    /\ "p2" \in Ids(projects)

\* C4: init_database on a projects table that has the column 'house' goes on
\* to seeding without a migration and leaves every project, photo and comment
\* row as it was.
C4_CurrentSchemaNoOp ==
    [][\A s \in Sessions :
          (pc[s] = "idle" /\ pc'[s] # "idle" /\ HasColumn(projects_cols, "house"))
          => /\ pc'[s] = "seed"
             /\ UNCHANGED <<projects_cols, projects, old_exists, projects_old,
                            photos, comments>>]_vars

\* a second startup has passed init_database on a populated database
C4_Witness ==
    /\ \E s \in Sessions : pc[s] = "seed"
    /\ runs = 2
    /\ Cardinality(projects) = 2
    /\ Cardinality(comments) = 3
    /\ photos # {}

\* session s executes DROP TABLE projects_old in this step
Drops(s) == pc[s] = "mig_drop" /\ pc'[s] = "mig_commit"

Issued == {DriveId(n) : n \in 1..blob_seq}

\* C6: in every state, also between the steps of a header replacement and
\* after any failure, the header_image_id stored for a project names no
\* deleted blob.
C6_HeaderNeverDangling ==
    \A r \in projects :
        (Len(r) = Len(NewLayout) /\ Col(r, NewLayout, "header_image_id") # NULL)
        => Col(r, NewLayout, "header_image_id") \in blobs

\* C7: a photo record is removed only when the deletion of its blob has
\* succeeded (the blob is gone when the record goes); a failed blob deletion
\* shows "Failed to delete photo" and leaves the photos table as it was; and
\* an id that has left the table is in no later listing.
C7_DeleteBlobFirst ==
    [][/\ \A ph \in photos \ photos' : ph[3] \notin blobs
       /\ \A s \in Sessions :
             /\ (pc[s] = "page" /\ msg'[s] = "Failed to delete photo") => photos' = photos
             /\ (pc[s] = "photo_delete" /\ pc'[s] = "idle" /\ msg'[s] = "")
                => \A ph \in photos' : ph[1] # loc[s].photo_id
       /\ \A id \in 1..photo_seq :
             (\A ph \in photos : ph[1] # id) => (\A ph \in photos' : ph[1] # id)]_vars

\* a photo was uploaded and deleted again, blob first
C7_Witness ==
    /\ photo_seq = 1
    /\ photos = {}
    /\ DriveId(1) \notin blobs
    /\ \A s \in Sessions : pc[s] = "idle" /\ msg[s] = ""

\* C8: a failed upload shows "Failed to upload photo to Google Drive" and
\* leaves the photos table as it was; every row that enters photos carries the
\* id Drive returned to the run that inserts it, an id handed out once and in
\* no other photo row.
C8_UploadThenRecord ==
    /\ [][\A s \in Sessions :
             (pc[s] = "page" /\ msg'[s] = "Failed to upload photo to Google Drive")
             => photos' = photos]_vars
    /\ [][\A ph \in photos' \ photos :
             /\ ph[3] \in Issued
             /\ \A other \in photos : other[3] # ph[3]
             /\ \E s \in Sessions :
                   /\ pc[s] = "photo_add" /\ pc'[s] = "idle"
                   /\ ph[2] = loc[s].id
                   /\ ph[3] = loc[s].google_drive_id]_vars
    /\ [](\A s \in Sessions :
             pc[s] = "photo_add"
             => /\ loc[s].google_drive_id \in Issued
                /\ \A t \in Sessions \ {s} :
                      pc[t] # "idle" => loc[t].google_drive_id # loc[s].google_drive_id)

\* a photo row holds the id of a file that is in the Drive folder
C8_Witness ==
    \E ph \in photos : ph[3] = DriveId(1) /\ ph[3] \in blobs /\ ph[4] = "No caption"

DuplicateMessage == "Project ID already exists! Choose a different ID."
AllRows == <<projects_cols, projects, old_exists, projects_old, photos, comments>>

\* C9 as stated: a create whose id is in the projects table shows the
\* duplicate-id error and changes no row.
C9_DuplicateAlwaysRejected ==
    [][\A s \in Sessions, n \in NameInputs, id \in IdInputs :
          (CreateCheck(s, n, id) /\ id \in Ids(projects))
          => /\ msg'[s] = DuplicateMessage
             /\ UNCHANGED AllRows]_vars

\* C9 as amended: a create with a non-empty name and a non-empty id that is in
\* the projects table shows the duplicate-id error; a create with any name
\* whose id is in the table when it is looked up or when it is inserted
\* changes no row, the insert then failing with an IntegrityError.
C9_DuplicateRejected ==
    [][\A s \in Sessions :
          /\ \A n \in NameInputs, id \in IdInputs :
                (CreateCheck(s, n, id) /\ id \in Ids(projects))
                => /\ UNCHANGED AllRows
                   /\ pc'[s] = "idle"
                   /\ (n # "" /\ id # "") => msg'[s] = DuplicateMessage
          /\ (pc[s] = "create_insert" /\ pc'[s] = "idle" /\ loc[s].id \in Ids(projects))
             => /\ UNCHANGED AllRows
                /\ msg'[s] \in {"IntegrityError", "Exception"}]_vars

\* a create was refused as a duplicate
C9_Witness ==
    \E s \in Sessions :
        /\ msg[s] = DuplicateMessage
        /\ pc[s] = "idle"
        /\ "p1" \in Ids(projects)

\* the row of a new project with the given value in action_required
DefaultRow(id, name, action_required, now) ==
    [k \in 1..Len(NewLayout) |->
        CASE NewLayout[k] = "id" -> id
          [] NewLayout[k] = "name" -> name
          [] NewLayout[k] = "overall_status" -> "Healthy"
          [] NewLayout[k] = "priority" -> "Medium"
          [] NewLayout[k] = "retail_ready" -> "Not yet available"
          [] NewLayout[k] \in {"pest_presence", "disease_presence"} -> "None"
          [] NewLayout[k] \in {"pest_type", "disease_type"} -> ""
          [] NewLayout[k] = "action_required" -> action_required
          [] NewLayout[k] = "header_image_id" -> NULL
          [] NewLayout[k] = "last_updated" -> now
          [] OTHER -> "TBD"]

\* session s ends a create of (name, id) in this step: the form was filled,
\* the id was not in the table at the lookup and is still not at the insert
Creates(s, name, id) ==
    /\ pc[s] = "create_insert" /\ pc'[s] = "idle"
    /\ loc[s].name = name /\ loc[s].id = id
    /\ id \notin Ids(projects)

\* a filled form with an id that is not in the table goes on to the insert
FreshGoesOn ==
    \A s \in Sessions, n \in NameInputs, id \in IdInputs :
        (CreateCheck(s, n, id) /\ n # "" /\ id # "" /\ id \notin Ids(projects))
        => /\ pc'[s] = "create_insert"
           /\ loc'[s].id = id
           /\ loc'[s].name = n

\* C10 as stated: a create with a non-empty name and a fresh id succeeds, and
\* get_project_by_id then returns the id and name with the defaults, every
\* status field without a named default being 'TBD'.
C10_CreateStoresDefaults ==
    [][/\ FreshGoesOn
       /\ \A s \in Sessions, n \in NameInputs, id \in IdInputs :
             (Creates(s, n, id) /\ msg'[s] # "Exception")
             => GetProjectById(id)' = DefaultRow(id, n, "TBD", Date(today))]_vars

\* C10 as amended: the same, with action_required 'Initial planting and
\* monitoring'.
C10_CreateStoresCodeDefaults ==
    [][/\ FreshGoesOn
       /\ \A s \in Sessions, n \in NameInputs, id \in IdInputs :
             (Creates(s, n, id) /\ msg'[s] # "Exception")
             => /\ msg'[s] = ""
                /\ projects' = projects \cup {GetProjectById(id)'}
                /\ GetProjectById(id)' =
                      DefaultRow(id, n, "Initial planting and monitoring", Date(today))]_vars

\* a project created on the second day is stored with its defaults
C10_Witness ==
    \E r \in projects :
        /\ r[1] = "roses-2025" /\ r[2] = "Roses 2025"
        /\ r[14] = "Initial planting and monitoring"
        /\ r[19] = Date(2)

CommentWarning == "Please provide your name and comment text"

\* C11: "Post Comment" with an empty author or an empty text shows the
\* validation message and leaves the comments table as it was, and every row
\* that enters comments has a non-empty author and a non-empty text.
C11_EmptyCommentRejected ==
    [][/\ \A s \in Sessions, p \in Ids(projects), u \in UserInputs, t \in TextInputs :
             (PostComment(s, p, u, t) /\ (u = "" \/ t = ""))
             => /\ msg'[s] = CommentWarning
                /\ pc'[s] = "idle"
                /\ UNCHANGED <<comments, comment_seq>>
       /\ \A c \in comments' \ comments : c[3] # "" /\ c[4] # ""]_vars

\* a comment was posted, and a later post with an empty field was refused
C11_Witness ==
    \E s \in Sessions :
        /\ msg[s] = CommentWarning
        /\ pc[s] = "idle"
        /\ \E c \in comments : c[3] = "Ann" /\ c[4] = "Looks fine"

\* the row update_project_status has to leave for a project
StatusRow(r, fields, now) ==
    [k \in 1..Len(NewLayout) |->
        CASE NewLayout[k] \in {"id", "name", "header_image_id"} -> r[k]
          [] NewLayout[k] = "last_updated" -> now
          [] OTHER -> fields[k - 2]]

\* C12: update_project_status called with an id that is not in the projects
\* table ends in a failure and changes no row; called with an id that is in
\* the table it replaces the status fields of that project, sets its
\* last_updated to the current date and leaves every other row as it was.
C12_UpdateStatusNotFound ==
    [][\A s \in Sessions :
          (pc[s] = "status_update" /\ pc'[s] = "idle" /\ msg'[s] # "Exception")
          => IF loc[s].id \in Ids(projects)
             THEN \E f \in StatusInputs :
                     projects' = {IF r[1] = loc[s].id THEN StatusRow(r, f, Date(today)) ELSE r
                                  : r \in projects}
             ELSE /\ msg'[s] # ""
                  /\ projects' = projects]_vars

\* C13: after a successful photo upload for a project, get_project_photos of
\* that project returns the new photo as the first element of its list, also
\* when other photos of the project carry the same date.
C13_NewPhotoFirst ==
    [][\A s \in Sessions :
          (pc[s] = "photo_add" /\ pc'[s] = "idle" /\ msg'[s] = "")
          => \A ph \in photos' \ photos :
                ListProjectPhotos(photos', ph[2])[1] = ph]_vars

\* C14: in every state at most one row of the projects table has a given id,
\* and a create whose id is in the table when its INSERT runs (another
\* session inserted the id after this session's lookup) fails and leaves the
\* table, with the other session's row, as it was.
C14_IdsUnique ==
    /\ [](\A r1, r2 \in projects : r1[1] = r2[1] => r1 = r2)
    /\ [][\A s \in Sessions :
             (pc[s] = "create_insert" /\ pc'[s] = "idle")
             => /\ projects \subseteq projects'
                /\ loc[s].id \in Ids(projects)
                   => (projects' = projects /\ msg'[s] # "")]_vars

\* two sessions found the same id free; the second INSERT was refused
C14_Witness ==
    \E s \in Sessions :
        /\ msg[s] = "IntegrityError"
        /\ pc[s] = "idle"
        /\ \E r \in projects : r[1] = "roses-2025" /\ r[2] = "Roses 2025"
        /\ Cardinality(projects) = 3

\* C15: no project is lost: every project id that is in the projects table,
\* or in the old table a migration has set aside, before a step is readable
\* through get_all_projects after the step, unless a run is still inside
\* migrate_database then.
C15_ProjectsNeverLost ==
    [][(\A s \in Sessions : pc'[s] \notin MigPcs)
       => Ids(projects) \cup Ids(projects_old) \subseteq Ids(GetAllProjects')]_vars

IsSampleComment(c) == \E k \in 1..Len(SampleComments) : SampleComments[k] = <<c[2], c[3], c[4]>>

\* C16: seed_sample_data inserts sample rows only into an empty database and
\* at most once: when a sample project is inserted the projects table holds
\* nothing but the sample projects the same seeding inserted before it, and
\* no sample comment of an earlier seeding is in the comments table.
C16_SeedOnlyWhenEmpty ==
    [][\A s \in Sessions :
          (pc[s] = "seed_project" /\ loc'[s].i # loc[s].i /\ projects' # projects)
          => /\ Ids(projects) = {SampleProjects[k][1] : k \in 1..(loc[s].i - 1)}
             /\ \A c \in comments : ~IsSampleComment(c)]_vars
====
